---- MODULE Spec2Model ----
(***************************************************************************)
(* Fulfillment tracking, status derivation and document numbering of the   *)
(* order-management backend (app/routers/sales_orders.py, invoices.py,     *)
(* shipments.py over the tables of app/models/).                           *)
(*                                                                         *)
(* Every request handler runs in its own database session and transaction  *)
(* (app/db.py get_db, `async with db.begin()`).  The store is PostgreSQL   *)
(* at its default isolation level, READ COMMITTED: every statement of a    *)
(* transaction reads the rows committed when the statement starts plus the *)
(* transaction's own rows.  A handler is suspended only at an `await` of a *)
(* storage call, so a handler is modelled as one action per awaited        *)
(* statement (statements whose result cannot depend on other transactions  *)
(* are taken together with the statement before them).                     *)
(*                                                                         *)
(* A table is a set of rows; field tx of a row is 0 when the row is        *)
(* committed and the id of the inserting transaction otherwise.  Primary   *)
(* keys are opaque: the model hands out the smallest id not in use.        *)
(***************************************************************************)
EXTENDS Integers, Sequences, FiniteSets, TLC

VARIABLES
    sales_orders,    \* table sales_orders   (models/sales_orders.py SalesOrder)
    so_items,        \* table so_items       (models/sales_orders.py SOItem)
    invoices,        \* table invoices       (models/invoices.py Invoice)
    invoice_items,   \* table invoice_items  (models/invoices.py InvoiceItem)
    shipments,       \* table shipments      (models/shipments.py Shipment)
    shipment_items,  \* table shipment_items (models/shipments.py ShipmentItem)
    current_year,    \* datetime.now().year
    pc,              \* per session: the statement its handler is suspended at
    req,             \* per session: the request being served
    loc              \* per session: the handler's local variables

vars ==
    << sales_orders, so_items, invoices, invoice_items, shipments,
       shipment_items, current_year, pc, req, loc >>

tables ==
    << sales_orders, so_items, invoices, invoice_items, shipments,
       shipment_items >>

----------------------------------------------------------------------------
(* Bounds of the model *)

\* concurrent sessions
NumSessions == 2
\* documents (sales orders, invoices, shipments) the model lets exist
MaxDocuments == 3
\* request.items of create_sales_order / create_invoice / create_shipment
MaxLines == 2
MaxItems == 2
\* the sales orders of the year stored when SpecNumbering starts
StoredBefore == 998

Sessions == 1..NumSessions

\* quantities a request may carry (pydantic `quantity: int`: any integer)
OrderQuantities == {-1, 2}
ItemQuantities == {-1, 1, 2}

\* the year of the first request
FirstYear == 2025
\* the new years the model lets begin
YearsAhead == 1
\* the highest sequence value SpecFormat renders
MaxSequence == 1100

----------------------------------------------------------------------------
(* Strings of decimal digits: the numeric suffix of a document number *)

\* str(n) for n >= 0
RECURSIVE Digits(_)
Digits(n) ==
    IF n < 10 THEN << n >> ELSE Append(Digits(n \div 10), n % 10)

\* the width of the format specification `:03d`
PadWidth == 3

\* f"{new_num:03d}": zero-padded to 3 digits, longer when the number needs it
RECURSIVE ZeroPad(_)
ZeroPad(s) ==
    IF Len(s) >= PadWidth THEN s ELSE ZeroPad(<< 0 >> \o s)

\* a format that keeps the last three digits
Format03d_Truncates(n) == ZeroPad(Digits(n % 1000))

Format03d(n) == ZeroPad(Digits(n))

\* int(s) for a string of decimal digits
RECURSIVE ParseInt(_)
ParseInt(s) ==
    IF Len(s) = 0 THEN 0
    ELSE 10 * ParseInt(SubSeq(s, 1, Len(s) - 1)) + s[Len(s)]

\* s < t in the order of strings (ORDER BY on a text column): the first
\* differing character decides, a proper prefix sorts first
RECURSIVE StrLess(_, _)
StrLess(s, t) ==
    IF Len(t) = 0 THEN FALSE
    ELSE IF Len(s) = 0 THEN TRUE
    ELSE IF s[1] # t[1] THEN s[1] < t[1]
    ELSE StrLess(Tail(s), Tail(t))

\* a document number PREFIX-year-suffix; the prefix is fixed by the table
DocNumber(year, n) == [year |-> year, suffix |-> Format03d(n)]

NoNumber == [year |-> 0, suffix |-> << >>]

\* the greatest string of a non-empty set in the order StrLess, found one
\* character at a time: among the strings that agree on the first k - 1
\* characters, one that ends there is a prefix of the others and sorts before
\* them, and the greatest k-th character decides among the rest
RECURSIVE GreatestFrom(_, _)
GreatestFrom(strings, k) ==
    LET longer == {s \in strings : Len(s) >= k}
    IN  IF longer = {} THEN CHOOSE s \in strings : TRUE
        ELSE LET top == CHOOSE c \in {s[k] : s \in longer} :
                            \A d \in {s[k] : s \in longer} : d <= c
             IN  GreatestFrom({s \in longer : s[k] = top}, k + 1)

\* .order_by(number.desc()).limit(1) over numbers of one prefix and year
LastNumber(numbers) ==
    CHOOSE n \in numbers : n.suffix = GreatestFrom({m.suffix : m \in numbers}, 1)

\* the generator without the filter on the year
NextNumber_AnyYear(numbers, year) ==
    IF numbers = {} THEN DocNumber(year, 1)
    ELSE DocNumber(year, ParseInt(LastNumber(numbers).suffix) + 1)

\* .where(number.like(f"PREFIX-{current_year}-%")).order_by(number.desc())
\* .limit(1), then int(last.split("-")[-1]) + 1, or 1 when no row matches
NextNumber(numbers, year) ==
    LET matching == {n \in numbers : n.year = year}
    IN  IF matching = {} THEN DocNumber(year, 1)
        ELSE DocNumber(year, ParseInt(LastNumber(matching).suffix) + 1)

----------------------------------------------------------------------------
(* Python floats (IEEE 754 binary64, round to nearest, ties to even) for the
   amounts of a response.  A natural number is the sequence of its digits in
   base 2^LimbBits, least significant first and without leading zeros, << >>
   for 0; a float is m * 2^e with m of exactly 53 binary digits, or zero.
   Amounts are never negative, subnormal or infinite here. *)

\* the binary digits of one digit of a natural number
LimbBits == 10
\* digits kept below the unit when a decimal is divided
GuardLimbs == 8
\* the binary digits of the significand of a binary64
Precision == 53

Base == 2^LimbBits

Zeros(k) == [i \in 1..k |-> 0]

Limb(a, i) == IF i <= Len(a) THEN a[i] ELSE 0

\* a without its leading zeros
Trim(a) ==
    LET used == {i \in 1..Len(a) : a[i] # 0}
    IN  IF used = {} THEN << >>
        ELSE SubSeq(a, 1, CHOOSE i \in used : \A k \in used : k <= i)

RECURSIVE BigOf(_)
BigOf(n) == IF n = 0 THEN << >> ELSE << n % Base >> \o BigOf(n \div Base)

\* a * Base^k and a \div Base^k
ShiftLimbs(a, k) == IF a = << >> THEN << >> ELSE Zeros(k) \o a

DropLimbs(a, k) == IF k >= Len(a) THEN << >> ELSE SubSeq(a, k + 1, Len(a))

\* the digits i.. of a + b + carry
RECURSIVE AddFrom(_, _, _, _)
AddFrom(a, b, i, carry) ==
    IF i > Len(a) /\ i > Len(b)
    THEN (IF carry = 0 THEN << >> ELSE << carry >>)
    ELSE LET t == Limb(a, i) + Limb(b, i) + carry
         IN  << t % Base >> \o AddFrom(a, b, i + 1, t \div Base)

BigAdd(a, b) == AddFrom(a, b, 1, 0)

\* the digits i.. of a * s + carry, for a number s below Base
RECURSIVE MulSmallFrom(_, _, _, _)
MulSmallFrom(a, s, i, carry) ==
    IF i > Len(a)
    THEN (IF carry = 0 THEN << >> ELSE << carry >>)
    ELSE LET t == a[i] * s + carry
         IN  << t % Base >> \o MulSmallFrom(a, s, i + 1, t \div Base)

BigMulSmall(a, s) == Trim(MulSmallFrom(a, s, 1, 0))

\* a times the digits j.. of b
RECURSIVE MulFrom(_, _, _)
MulFrom(a, b, j) ==
    IF j > Len(b) THEN << >>
    ELSE BigAdd(BigMulSmall(a, b[j]), ShiftLimbs(MulFrom(a, b, j + 1), 1))

BigMul(a, b) == MulFrom(a, b, 1)

\* quotient and remainder of the number of the digits i.. of a by d, for a
\* number d of at most 2 * LimbBits binary digits
RECURSIVE DivFrom(_, _, _)
DivFrom(a, d, i) ==
    IF i > Len(a) THEN [q |-> << >>, r |-> 0]
    ELSE LET higher == DivFrom(a, d, i + 1)
             t == higher.r * Base + a[i]
         IN  [q |-> << t \div d >> \o higher.q, r |-> t % d]

BigDiv(a, d) ==
    LET division == DivFrom(a, d, 1)
    IN  [q |-> Trim(division.q), r |-> division.r]

\* the number of binary digits of a
BitLength(a) ==
    IF a = << >> THEN 0
    ELSE (Len(a) - 1) * LimbBits
           + CHOOSE k \in 1..LimbBits : 2^(k - 1) <= a[Len(a)] /\ a[Len(a)] < 2^k

\* a * 2^k
ShiftLeftBits(a, k) ==
    ShiftLimbs(BigMulSmall(a, 2^(k % LimbBits)), k \div LimbBits)

\* a \div 2^k, and whether a digit 1 was shifted out
ShiftRightBits(a, k) ==
    LET limbs == k \div LimbBits
        division == BigDiv(DropLimbs(a, limbs), 2^(k % LimbBits))
    IN  [q |-> division.q,
         lost |-> division.r # 0 \/ \E i \in 1..limbs : Limb(a, i) # 0]

FloatZero == [m |-> << >>, e |-> 0]

\* the binary64 nearest to (a + f) * 2^e, where 0 <= f < 1 and f > 0 exactly
\* when `inexact`; ties go to the even significand
RoundToFloat(a, e, inexact) ==
    IF a = << >> THEN FloatZero
    ELSE IF BitLength(a) <= Precision
    THEN [m |-> ShiftLeftBits(a, Precision - BitLength(a)),
          e |-> e - (Precision - BitLength(a))]
    ELSE LET dropped == BitLength(a) - Precision
             upper == ShiftRightBits(a, dropped - 1)
             halved == BigDiv(upper.q, 2)
             high == halved.q
             half == halved.r = 1
             rest == inexact \/ upper.lost
             up == half /\ (rest \/ high[1] % 2 = 1)
             next == BigAdd(high, << 1 >>)
         IN  IF ~up THEN [m |-> high, e |-> e + dropped]
             ELSE IF BitLength(next) > Precision
             THEN [m |-> BigDiv(next, 2).q, e |-> e + dropped + 1]
             ELSE [m |-> next, e |-> e + dropped]

\* float(Decimal) of the decimal num / den: the nearest binary64
ToFloat(num, den) ==
    LET division == BigDiv(ShiftLimbs(BigOf(num), GuardLimbs), den)
    IN  RoundToFloat(division.q, 0 - GuardLimbs * LimbBits, division.r # 0)

\* x * y
FloatMul(x, y) ==
    IF x = FloatZero \/ y = FloatZero THEN FloatZero
    ELSE RoundToFloat(BigMul(x.m, y.m), x.e + y.e, FALSE)

\* x + y
FloatAdd(x, y) ==
    IF x = FloatZero THEN y
    ELSE IF y = FloatZero THEN x
    ELSE LET e == IF x.e < y.e THEN x.e ELSE y.e
         IN  RoundToFloat(BigAdd(ShiftLeftBits(x.m, x.e - e),
                                 ShiftLeftBits(y.m, y.e - e)), e, FALSE)

\* the totals of a response from the lines of an order, in the order of the
\* list:
\*   item_total = float(item.quantity * item.price)
\*   item_tax = item_total * float(item.tax_rate)
\*   subtotal += item_total; tax += item_tax        (from 0.0)
\*   total = subtotal + tax
\* price is held in cents and tax_rate in ten-thousandths
RECURSIVE SumTotals(_)
SumTotals(lines) ==
    IF Len(lines) = 0 THEN [subtotal |-> FloatZero, tax |-> FloatZero]
    ELSE LET before == SumTotals(SubSeq(lines, 1, Len(lines) - 1))
             item == lines[Len(lines)]
             item_total == ToFloat(item.quantity * item.price, 100)
             item_tax == FloatMul(item_total, ToFloat(item.tax_rate, 10000))
         IN  [subtotal |-> FloatAdd(before.subtotal, item_total),
              tax |-> FloatAdd(before.tax, item_tax)]

Totals(lines) ==
    LET sums == SumTotals(lines)
    IN  [subtotal |-> sums.subtotal, tax |-> sums.tax,
         total |-> FloatAdd(sums.subtotal, sums.tax)]

----------------------------------------------------------------------------
(* Rows and what a statement of session p reads *)

Committed(T) == {r \in T : r.tx = 0}

Visible(T, p) == {r \in T : r.tx \in {0, p}}

NextId(T) ==
    LET free == (1..(Cardinality(T) + 1)) \ {r.id : r \in T}
    IN  CHOOSE i \in free : \A j \in free : i <= j

RECURSIVE SumOf(_, _)
SumOf(rows, field) ==
    IF rows = {} THEN 0
    ELSE LET r == CHOOSE x \in rows : TRUE
         IN  r[field] + SumOf(rows \ {r}, field)

\* the ids of a set of rows in ascending order (a relationship's load order)
RECURSIVE SortedIds(_)
SortedIds(rows) ==
    IF rows = {} THEN << >>
    ELSE LET r == CHOOSE x \in rows : \A y \in rows : x.id <= y.id
         IN  << r.id >> \o SortedIds(rows \ {r})

\* the sum of a session without autoflush: the items the request has added
\* and not yet flushed are not counted
InvoicedQty_WithoutAutoflush(p, line) ==
    SumOf({r \in Committed(invoice_items) : r.so_item_id = line},
          "quantity_invoiced")

\* a sum that counts the shipped quantity of the line as well
InvoicedQty_CountsShipments(p, line) ==
    SumOf({r \in Visible(invoice_items, p) : r.so_item_id = line},
          "quantity_invoiced")
      + SumOf({r \in Visible(shipment_items, p) : r.so_item_id = line},
              "quantity_shipped")

\* select(func.sum(InvoiceItem.quantity_invoiced))
\*   .where(InvoiceItem.so_item_id == line); `result.scalar() or 0`
InvoicedQty(p, line) ==
    SumOf({r \in Visible(invoice_items, p) : r.so_item_id = line},
          "quantity_invoiced")

\* select(func.sum(ShipmentItem.quantity_shipped))
\*   .where(ShipmentItem.so_item_id == line); `result.scalar() or 0`
ShippedQty(p, line) ==
    SumOf({r \in Visible(shipment_items, p) : r.so_item_id = line},
          "quantity_shipped")

\* sales_order.items of a loaded order (selectinload(SalesOrder.items)).
\* The lines of a committed order never change, so the relationship loaded
\* by the first statement is the one any later statement would load.
LinesOf(order_id) ==
    SortedIds({r \in Committed(so_items) : r.sales_order_id = order_id})

LineRow(line) == CHOOSE r \in so_items : r.id = line

OrderRow(order_id) == CHOOSE r \in sales_orders : r.id = order_id

----------------------------------------------------------------------------
(* Requests *)

NoRequest == [kind |-> "none", salesOrderId |-> 0, items |-> << >>,
              invoice_status |-> "", shipment_status |-> ""]

RECURSIVE SeqsUpTo(_, _)
SeqsUpTo(S, n) ==
    IF n = 0 THEN {<< >>}
    ELSE LET shorter == SeqsUpTo(S, n - 1)
         IN  shorter \cup {Append(s, x) : s \in {t \in shorter : Len(t) = n - 1},
                                           x \in S}

\* CreateSalesOrderRequest (schemas.py): items of CreateSOItemRequest, and the
\* status fields the client may send with the order
OrderStatusInputs ==
    { << "not_invoiced", "not_shipped" >>, << "invoiced", "shipped" >> }

\* CreateSOItemRequest: quantity, price (Numeric(10, 2), held in cents) and
\* tax_rate (Numeric(5, 4), held in ten-thousandths)
SoItemInputs(quantities, prices, tax_rates) ==
    {[quantity |-> q, price |-> c, tax_rate |-> t] :
        q \in quantities, c \in prices, t \in tax_rates}

OrderRequestsOf(item_inputs, statuses) ==
    { [kind |-> "create_sales_order", salesOrderId |-> 0, items |-> its,
       invoice_status |-> st[1], shipment_status |-> st[2]] :
        its \in SeqsUpTo(item_inputs, MaxLines), st \in statuses }

\* the orders of the clients that send one price and one tax rate
CreateSalesOrderRequests(quantities, statuses) ==
    OrderRequestsOf(SoItemInputs(quantities, {1000}, {1000}), statuses)

\* ids a client can name: those of committed rows, and 0, the id of no row
KnownIds(T) == {r.id : r \in Committed(T)} \cup {0}

\* CreateInvoiceRequest (invoices.py) / CreateShipmentRequest (shipments.py).
\* The handlers read request.items one element per turn of their loop and
\* nothing else of the list, so the model draws each element when the loop
\* reaches it: req[p].items holds the elements read so far.
FulfillmentRequest(kind, order_id) ==
    [kind |-> kind, salesOrderId |-> order_id, items |-> << >>,
     invoice_status |-> "", shipment_status |-> ""]

\* InvoiceItemCreate / ShipmentItemCreate
ItemInputs(quantities) ==
    {[soItemId |-> l, quantity |-> q] :
        l \in KnownIds(so_items), q \in quantities}

----------------------------------------------------------------------------
(* Sessions *)

\* the response of a handler that has not answered
\* detail: the values the text of an error answer carries, by name
NoDetail == << >>

NoResponse == [status_code |-> 0, totals |-> << >>, shipped |-> << >>,
               detail |-> NoDetail]

NoLocals == [number |-> NoNumber, doc |-> 0, loaded |-> "", idx |-> 0,
             fully |-> TRUE, has_partial |-> FALSE, new_status |-> "",
             wrote |-> FALSE, err |-> "", new_num |-> 0,
             response |-> NoResponse]

\* `except Exception as e: raise HTTPException(status_code=400, detail=...
\* {str(e)})`: every exception that leaves the body of the handler, an
\* HTTPException raised by the body included, is answered with status 400 and
\* the text of the exception.  `doc` is the id of the document object the
\* handler had created, 0 when it had created none.
ExceptClause(error, doc) ==
    [NoLocals EXCEPT !.err = error, !.doc = doc,
                     !.response = [NoResponse EXCEPT !.status_code = 400]]

\* the documents stored or about to be inserted
Documents ==
    Cardinality(sales_orders) + Cardinality(invoices) + Cardinality(shipments)
      + Cardinality({q \in Sessions :
                        pc[q] \in {"so_flush", "inv_number", "inv_flush"}})

InTransaction(p) ==
    pc[p] \notin {"idle", "committed", "failed", "listed", "render", "parse"}

\* a rollback that also discards what earlier transactions committed
Rollback_DropsTable(T, p) == {}

\* a transaction block that leaves its rows in place when its body raises
Rollback_KeepsRows(T, p) == T

\* the rollback of `async with db.begin()` when its body raises
Rollback(T, p) == {r \in T : r.tx # p}

\* what the handler still uses of its locals once the transaction block ends
AfterBlock(locals) ==
    [NoLocals EXCEPT !.number = locals.number, !.doc = locals.doc,
                     !.new_status = locals.new_status]

\* COMMIT: the transaction's rows become visible to every session
Commit(T, p) == {IF r.tx = p THEN [r EXCEPT !.tx = 0] ELSE r : r \in T}

RollbackAll(p) ==
    /\ sales_orders' = Rollback(sales_orders, p)
    /\ so_items' = Rollback(so_items, p)
    /\ invoices' = Rollback(invoices, p)
    /\ invoice_items' = Rollback(invoice_items, p)
    /\ shipments' = Rollback(shipments, p)
    /\ shipment_items' = Rollback(shipment_items, p)

\* an exception leaves the transaction block: rollback, then the handler's
\* `except Exception` answers with the error
RaiseWith(p, error, detail) ==
    /\ RollbackAll(p)
    /\ pc' = [pc EXCEPT ![p] = "failed"]
    /\ loc' = [loc EXCEPT ![p] = [ExceptClause(error, loc[p].doc) EXCEPT
                                     !.response.detail = detail]]

Raise(p, error) == RaiseWith(p, error, NoDetail)

\* the values the f-strings "Invalid SO item ID: {item_data.soItemId}" and
\* "Quantity exceeds remaining for item {item_data.soItemId}" put into the
\* text of the error
ItemDetail(item) == [soItemId |-> item.soItemId]

\* the column without its UNIQUE constraint
UniqueViolation_NoConstraint(numbers_committed, number) == FALSE

\* a UNIQUE column: an INSERT of a value a committed row holds fails, and an
\* INSERT of a value another transaction has inserted waits for its end
UniqueViolation(numbers_committed, number) == number \in numbers_committed

UniqueWait(T, field, p, number) ==
    \E r \in T : r.tx \notin {0, p} /\ r[field] = number

Init ==
    /\ sales_orders = {}
    /\ so_items = {}
    /\ invoices = {}
    /\ invoice_items = {}
    /\ shipments = {}
    /\ shipment_items = {}
    /\ current_year = FirstYear
    /\ pc = [p \in Sessions |-> "idle"]
    /\ req = [p \in Sessions |-> NoRequest]
    /\ loc = [p \in Sessions |-> NoLocals]

----------------------------------------------------------------------------
(* create_sales_order (routers/sales_orders.py) *)

\* generate_order_number: the SELECT of the highest order number of the year
generate_order_number(p) ==
    NextNumber({r.order_number : r \in Visible(sales_orders, p)}, current_year)

\* the request arrives; order_number = await generate_order_number(db)
SoGenerateNumber(p, request) ==
    /\ pc[p] = "idle"
    /\ req' = [req EXCEPT ![p] = request]
    /\ loc' = [loc EXCEPT ![p] = [NoLocals EXCEPT
                                     !.number = generate_order_number(p)]]
    /\ pc' = [pc EXCEPT ![p] = "so_flush"]
    /\ UNCHANGED << tables, current_year >>

\* db.add(sales_order); await db.flush(): INSERT INTO sales_orders
SoFlush(p) ==
    /\ pc[p] = "so_flush"
    /\ ~UniqueWait(sales_orders, "order_number", p, loc[p].number)
    /\ IF UniqueViolation({r.order_number : r \in Committed(sales_orders)},
                          loc[p].number)
       THEN /\ Raise(p, "IntegrityError")
            /\ UNCHANGED << current_year, req >>
       ELSE LET id == NextId(sales_orders)
            IN  /\ sales_orders' = sales_orders \cup
                       {[id |-> id, order_number |-> loc[p].number,
                         invoice_status |-> req[p].invoice_status,
                         shipment_status |-> req[p].shipment_status,
                         tx |-> p]}
                /\ loc' = [loc EXCEPT ![p].doc = id]
                /\ pc' = [pc EXCEPT ![p] = "so_commit"]
                /\ UNCHANGED << so_items, invoices, invoice_items, shipments,
                                shipment_items, current_year, req >>

\* the rows db.add(so_item) queues for request.items, with fresh ids
RECURSIVE NewSoItems(_, _, _, _)
NewSoItems(existing, order_id, items, p) ==
    IF Len(items) = 0 THEN {}
    ELSE LET row == [id |-> NextId(existing), sales_order_id |-> order_id,
                     quantity |-> Head(items).quantity,
                     price |-> Head(items).price,
                     tax_rate |-> Head(items).tax_rate, tx |-> p]
         IN  {row} \cup NewSoItems(existing \cup {row}, order_id, Tail(items), p)

\* the end of the transaction block: the flush of the queued so_items, COMMIT
SoCommit(p) ==
    /\ pc[p] = "so_commit"
    /\ sales_orders' = Commit(sales_orders, p)
    /\ so_items' = Commit(so_items \cup
                            NewSoItems(so_items, loc[p].doc, req[p].items, p), p)
    /\ pc' = [pc EXCEPT ![p] = "committed"]
    /\ loc' = [loc EXCEPT ![p] = AfterBlock(@)]
    /\ UNCHANGED << invoices, invoice_items, shipments, shipment_items,
                    current_year, req >>

----------------------------------------------------------------------------
(* What every handler shares *)

\* the handler returns its response, or the HTTPException of its except clause
Respond(p) ==
    /\ pc[p] \in {"committed", "failed", "listed"}
    /\ pc' = [pc EXCEPT ![p] = "idle"]
    /\ req' = [req EXCEPT ![p] = NoRequest]
    /\ loc' = [loc EXCEPT ![p] = NoLocals]
    /\ UNCHANGED << tables, current_year >>

\* a storage fault or a crash inside the transaction block: the transaction
\* is rolled back
Abort(p) ==
    /\ InTransaction(p)
    /\ Raise(p, "StorageUnavailable")
    /\ UNCHANGED << current_year, req >>

\* order.items of an order read by session p, in the order of their ids
OrderLines(p, order_id) ==
    LET ids == SortedIds({r \in Visible(so_items, p) :
                             r.sales_order_id = order_id})
    IN  [i \in 1..Len(ids) |-> LineRow(ids[i])]

\* the walk that reads the first shipment of the order only
ListedShippedQty_FirstShipment(p, order_id, line) ==
    LET of_order == {s \in Visible(shipments, p) : s.sales_order_id = order_id}
        first == {s \in of_order : \A t \in of_order : s.id <= t.id}
    IN  SumOf({r \in Visible(shipment_items, p) :
                  /\ r.shipment_id \in {s.id : s \in first}
                  /\ r.so_item_id = line},
              "quantity_shipped")

\* `for shipment in order.shipments: for shipment_item in
\* shipment.shipment_items: if shipment_item.so_item_id == item.id:
\* shipped_quantity += shipment_item.quantity_shipped`
ListedShippedQty(p, order_id, line) ==
    LET of_order == {s \in Visible(shipments, p) : s.sales_order_id = order_id}
    IN  SumOf({r \in Visible(shipment_items, p) :
                  /\ r.shipment_id \in {s.id : s \in of_order}
                  /\ r.so_item_id = line},
              "quantity_shipped")

\* GET /sales-orders (list_sales_orders): one SELECT of the orders with their
\* lines and their shipments, then the totals of every order and the shipped
\* quantity of every line for the response
ListSalesOrders(p) ==
    /\ pc[p] = "idle"
    /\ req' = [req EXCEPT ![p] = [NoRequest EXCEPT !.kind = "list_sales_orders"]]
    /\ loc' = [loc EXCEPT ![p] = [NoLocals EXCEPT !.response =
                   [status_code |-> 200, detail |-> NoDetail,
                    totals |-> [o \in {r.id : r \in Visible(sales_orders, p)} |->
                                   Totals(OrderLines(p, o))],
                    shipped |-> [l \in {r.id : r \in Visible(so_items, p)} |->
                                    ListedShippedQty(p, LineRow(l).sales_order_id,
                                                     l)]]]]
    /\ pc' = [pc EXCEPT ![p] = "listed"]
    /\ UNCHANGED << tables, current_year >>

\* GET /sales-orders/{order_id}/shipped-quantities (get_shipped_quantities):
\* the SELECT of the order, 404 when there is none, then one SELECT of the
\* sum per line of the order
GetShippedQuantities(p, order_id) ==
    /\ pc[p] = "idle"
    /\ req' = [req EXCEPT ![p] = [NoRequest EXCEPT
                                     !.kind = "get_shipped_quantities",
                                     !.salesOrderId = order_id]]
    /\ IF \A r \in Visible(sales_orders, p) : r.id # order_id
       THEN /\ pc' = [pc EXCEPT ![p] = "failed"]
            /\ loc' = [loc EXCEPT ![p] = [NoLocals EXCEPT
                          !.err = "NotFound",
                          !.response = [NoResponse EXCEPT !.status_code = 404]]]
       ELSE /\ pc' = [pc EXCEPT ![p] = "listed"]
            /\ loc' = [loc EXCEPT ![p] = [NoLocals EXCEPT !.response =
                          [NoResponse EXCEPT
                              !.status_code = 200,
                              !.shipped =
                                  [l \in {r.id : r \in
                                              {x \in Visible(so_items, p) :
                                                  x.sales_order_id = order_id}} |->
                                      ShippedQty(p, l)]]]]
    /\ UNCHANGED << tables, current_year >>

\* a storage fault in the statement create_sales_order and create_invoice
\* await after their transaction block has committed (the re-query of the
\* created document for the response): the exception reaches the same except
\* clause.  create_shipment awaits nothing after its block.
RequeryFails(p) ==
    /\ pc[p] = "committed"
    /\ req[p].kind \in {"create_sales_order", "create_invoice"}
    /\ pc' = [pc EXCEPT ![p] = "failed"]
    /\ loc' = [loc EXCEPT ![p] = ExceptClause("StorageUnavailable", loc[p].doc)]
    /\ UNCHANGED << tables, current_year, req >>

----------------------------------------------------------------------------
(* create_invoice (routers/invoices.py) *)

\* the statement the handler awaits next, once the document row is inserted
\* and, later, once the loop over request.items has ended
AfterItems(prefix, order_id) ==
    IF Len(LinesOf(order_id)) > 0 THEN prefix \o "_status" ELSE prefix \o "_update"

AfterInsert(prefix, order_id, no_items) ==
    IF ~no_items THEN prefix \o "_items" ELSE AfterItems(prefix, order_id)

\* the request arrives; select(SalesOrder).where(id == request.salesOrderId)
InvSelectOrder(p, order_id) ==
    /\ pc[p] = "idle"
    /\ req' = [req EXCEPT ![p] = FulfillmentRequest("create_invoice", order_id)]
    /\ LET found == {r \in Visible(sales_orders, p) : r.id = order_id}
       IN  IF found = {}
           THEN /\ pc' = [pc EXCEPT ![p] = "failed"]
                /\ loc' = [loc EXCEPT ![p] = ExceptClause("NotFound", 0)]
           ELSE /\ pc' = [pc EXCEPT ![p] = "inv_number"]
                /\ loc' = [loc EXCEPT ![p] = [NoLocals EXCEPT !.loaded =
                              (CHOOSE r \in found : TRUE).invoice_status]]
    /\ UNCHANGED << tables, current_year >>

\* generate_invoice_number: the SELECT of the highest invoice number of the year
generate_invoice_number(p) ==
    NextNumber({r.invoice_number : r \in Visible(invoices, p)}, current_year)

\* invoice_number = await generate_invoice_number(db)
InvGenerateNumber(p) ==
    /\ pc[p] = "inv_number"
    /\ loc' = [loc EXCEPT ![p].number = generate_invoice_number(p)]
    /\ pc' = [pc EXCEPT ![p] = "inv_flush"]
    /\ UNCHANGED << tables, current_year, req >>

\* db.add(invoice); await db.flush(): INSERT INTO invoices.
\* no_items: request.items is empty
InvFlush(p, no_items) ==
    /\ pc[p] = "inv_flush"
    /\ ~UniqueWait(invoices, "invoice_number", p, loc[p].number)
    /\ IF UniqueViolation({r.invoice_number : r \in Committed(invoices)},
                          loc[p].number)
       THEN /\ Raise(p, "IntegrityError")
            /\ UNCHANGED << current_year, req >>
       ELSE LET id == NextId(invoices)
            IN  /\ invoices' = invoices \cup
                       {[id |-> id, invoice_number |-> loc[p].number,
                         sales_order_id |-> req[p].salesOrderId, tx |-> p]}
                /\ loc' = [loc EXCEPT ![p].doc = id, ![p].idx = 1]
                /\ pc' = [pc EXCEPT ![p] =
                             AfterInsert("inv", req[p].salesOrderId, no_items)]
                /\ UNCHANGED << sales_orders, so_items, invoice_items, shipments,
                                shipment_items, current_year, req >>

\* the test of existence alone, `if not so_item`
InvalidLine_ExistenceOnly(p, line, order_id) ==
    \A r \in Visible(so_items, p) : r.id # line

\* `if not so_item or so_item.sales_order_id != sales_order.id`
InvalidLine(p, line, order_id) ==
    \A r \in Visible(so_items, p) : r.id = line => r.sales_order_id # order_id

\* the check without the requested quantity
ExceedsRemaining_IgnoresRequest(consumed, quantity, ordered) == consumed > ordered

\* `if invoiced_qty + item_data.quantity > so_item.quantity`
ExceedsRemaining(consumed, quantity, ordered) == consumed + quantity > ordered

\* one turn of `for item_data in request.items`: the SELECT of the line, the
\* SELECT of the sum invoiced so far (the session's autoflush has written the
\* items of the earlier turns, so the sum counts them), db.add(invoice_item).
\* item: the element of request.items of this turn; last: it is the last one
InvItem(p, item, last) ==
    /\ pc[p] = "inv_items"
    /\ last \/ loc[p].idx < MaxItems
    /\ LET order_id == req[p].salesOrderId
       IN  IF InvalidLine(p, item.soItemId, order_id)
           THEN /\ RaiseWith(p, "InvalidItem", ItemDetail(item))
                /\ req' = [req EXCEPT ![p].items = Append(@, item)]
                /\ UNCHANGED current_year
           ELSE IF ExceedsRemaining(InvoicedQty(p, item.soItemId), item.quantity,
                                    LineRow(item.soItemId).quantity)
           THEN /\ RaiseWith(p, "CapacityExceeded", ItemDetail(item))
                /\ req' = [req EXCEPT ![p].items = Append(@, item)]
                /\ UNCHANGED current_year
           ELSE /\ invoice_items' = invoice_items \cup
                       {[id |-> NextId(invoice_items), invoice_id |-> loc[p].doc,
                         so_item_id |-> item.soItemId,
                         quantity_invoiced |-> item.quantity, tx |-> p]}
                /\ req' = [req EXCEPT ![p].items = Append(@, item)]
                /\ IF ~last
                   THEN /\ loc' = [loc EXCEPT ![p].idx = @ + 1]
                        /\ UNCHANGED pc
                   ELSE /\ loc' = [loc EXCEPT ![p].idx = 1]
                        /\ pc' = [pc EXCEPT ![p] = AfterItems("inv", order_id)]
                /\ UNCHANGED << sales_orders, so_items, invoices, shipments,
                                shipment_items, current_year >>

\* one turn of `for so_item in sales_order.items`: the SELECT of the line's sum
InvStatusLine(p) ==
    /\ pc[p] = "inv_status"
    /\ LET lines == LinesOf(req[p].salesOrderId)
           line == lines[loc[p].idx]
           total_invoiced == InvoicedQty(p, line)
       IN  /\ loc' = [loc EXCEPT
                  ![p].fully = @ /\ ~(total_invoiced < LineRow(line).quantity),
                  ![p].has_partial = @ \/ total_invoiced > 0,
                  ![p].idx = @ + 1]
           /\ pc' = [pc EXCEPT ![p] =
                        IF loc[p].idx < Len(lines) THEN "inv_status" ELSE "inv_update"]
    /\ UNCHANGED << tables, current_year, req >>

\* `if fully_invoiced: ... elif has_partial: ... else: ...`
InvoiceStatusOf(fully_invoiced, has_partial) ==
    IF fully_invoiced THEN "invoiced"
    ELSE IF has_partial THEN "partial"
    ELSE "not_invoiced"

\* a row lock every transaction takes, shared, when it selects the order, so
\* that an UPDATE waits for every other transaction that has selected it
RowLocked_SharedFromSelect(order_id, p) ==
    \E q \in Sessions \ {p} :
        /\ InTransaction(q)
        /\ req[q].salesOrderId = order_id

\* another transaction has updated the row of the order and has not ended:
\* an UPDATE of the row waits for it
RowLocked(order_id, p) ==
    \E q \in Sessions \ {p} :
        /\ pc[q] \in {"inv_commit", "sh_commit"}
        /\ loc[q].wrote
        /\ req[q].salesOrderId = order_id

\* sales_order.invoice_status = ...; the flush at the end of the transaction
\* block: UPDATE sales_orders SET invoice_status, emitted when the value differs
\* from the loaded one
InvUpdate(p) ==
    /\ pc[p] = "inv_update"
    /\ LET new_status == InvoiceStatusOf(loc[p].fully, loc[p].has_partial)
       IN  IF new_status = loc[p].loaded
           THEN loc' = [loc EXCEPT ![p].new_status = new_status]
           ELSE /\ ~RowLocked(req[p].salesOrderId, p)
                /\ loc' = [loc EXCEPT ![p].new_status = new_status,
                                      ![p].wrote = TRUE]
    /\ pc' = [pc EXCEPT ![p] = "inv_commit"]
    /\ UNCHANGED << tables, current_year, req >>

\* COMMIT
InvCommit(p) ==
    /\ pc[p] = "inv_commit"
    /\ invoices' = Commit(invoices, p)
    /\ invoice_items' = Commit(invoice_items, p)
    /\ sales_orders' =
           IF loc[p].wrote
           THEN {IF r.id = req[p].salesOrderId
                 THEN [r EXCEPT !.invoice_status = loc[p].new_status]
                 ELSE r : r \in sales_orders}
           ELSE sales_orders
    /\ pc' = [pc EXCEPT ![p] = "committed"]
    /\ loc' = [loc EXCEPT ![p] = AfterBlock(@)]
    /\ UNCHANGED << so_items, shipments, shipment_items, current_year, req >>

----------------------------------------------------------------------------
(* create_shipment (routers/shipments.py) *)

\* the request arrives; select(SalesOrder).where(id == request.salesOrderId);
\* db.add(shipment); await db.flush(): INSERT INTO shipments.
\* no_items: request.items is empty
ShSelectOrder(p, order_id, no_items) ==
    /\ pc[p] = "idle"
    /\ req' = [req EXCEPT ![p] = FulfillmentRequest("create_shipment", order_id)]
    /\ LET found == {r \in Visible(sales_orders, p) : r.id = order_id}
           id == NextId(shipments)
       IN  IF found = {}
           THEN /\ pc' = [pc EXCEPT ![p] = "failed"]
                /\ loc' = [loc EXCEPT ![p] = ExceptClause("NotFound", 0)]
                /\ UNCHANGED shipments
           ELSE /\ shipments' = shipments \cup
                       {[id |-> id, sales_order_id |-> order_id, tx |-> p]}
                /\ pc' = [pc EXCEPT ![p] = AfterInsert("sh", order_id, no_items)]
                /\ loc' = [loc EXCEPT ![p] = [NoLocals EXCEPT
                              !.loaded = (CHOOSE r \in found : TRUE).shipment_status,
                              !.doc = id, !.idx = 1]]
    /\ UNCHANGED << sales_orders, so_items, invoices, invoice_items,
                    shipment_items, current_year >>

\* one turn of `for item_data in request.items`
ShItem(p, item, last) ==
    /\ pc[p] = "sh_items"
    /\ last \/ loc[p].idx < MaxItems
    /\ LET order_id == req[p].salesOrderId
       IN  IF InvalidLine(p, item.soItemId, order_id)
           THEN /\ RaiseWith(p, "InvalidItem", ItemDetail(item))
                /\ req' = [req EXCEPT ![p].items = Append(@, item)]
                /\ UNCHANGED current_year
           ELSE IF ExceedsRemaining(ShippedQty(p, item.soItemId), item.quantity,
                                    LineRow(item.soItemId).quantity)
           THEN /\ RaiseWith(p, "CapacityExceeded", ItemDetail(item))
                /\ req' = [req EXCEPT ![p].items = Append(@, item)]
                /\ UNCHANGED current_year
           ELSE /\ shipment_items' = shipment_items \cup
                       {[id |-> NextId(shipment_items), shipment_id |-> loc[p].doc,
                         so_item_id |-> item.soItemId,
                         quantity_shipped |-> item.quantity, tx |-> p]}
                /\ req' = [req EXCEPT ![p].items = Append(@, item)]
                /\ IF ~last
                   THEN /\ loc' = [loc EXCEPT ![p].idx = @ + 1]
                        /\ UNCHANGED pc
                   ELSE /\ loc' = [loc EXCEPT ![p].idx = 1]
                        /\ pc' = [pc EXCEPT ![p] = AfterItems("sh", order_id)]
                /\ UNCHANGED << sales_orders, so_items, invoices, invoice_items,
                                shipments, current_year >>

\* one turn of `for so_item in sales_order.items`
ShStatusLine(p) ==
    /\ pc[p] = "sh_status"
    /\ LET lines == LinesOf(req[p].salesOrderId)
           line == lines[loc[p].idx]
           total_shipped == ShippedQty(p, line)
       IN  /\ loc' = [loc EXCEPT
                  ![p].fully = @ /\ ~(total_shipped < LineRow(line).quantity),
                  ![p].has_partial = @ \/ total_shipped > 0,
                  ![p].idx = @ + 1]
           /\ pc' = [pc EXCEPT ![p] =
                        IF loc[p].idx < Len(lines) THEN "sh_status" ELSE "sh_update"]
    /\ UNCHANGED << tables, current_year, req >>

\* `if fully_shipped: ... elif has_partial: ... else: ...`
ShipmentStatusOf(fully_shipped, has_partial) ==
    IF fully_shipped THEN "shipped"
    ELSE IF has_partial THEN "partial"
    ELSE "not_shipped"

\* sales_order.shipment_status = ...; UPDATE sales_orders SET shipment_status
ShUpdate(p) ==
    /\ pc[p] = "sh_update"
    /\ LET new_status == ShipmentStatusOf(loc[p].fully, loc[p].has_partial)
       IN  IF new_status = loc[p].loaded
           THEN loc' = [loc EXCEPT ![p].new_status = new_status]
           ELSE /\ ~RowLocked(req[p].salesOrderId, p)
                /\ loc' = [loc EXCEPT ![p].new_status = new_status,
                                      ![p].wrote = TRUE]
    /\ pc' = [pc EXCEPT ![p] = "sh_commit"]
    /\ UNCHANGED << tables, current_year, req >>

\* COMMIT
ShCommit(p) ==
    /\ pc[p] = "sh_commit"
    /\ shipments' = Commit(shipments, p)
    /\ shipment_items' = Commit(shipment_items, p)
    /\ sales_orders' =
           IF loc[p].wrote
           THEN {IF r.id = req[p].salesOrderId
                 THEN [r EXCEPT !.shipment_status = loc[p].new_status]
                 ELSE r : r \in sales_orders}
           ELSE sales_orders
    /\ pc' = [pc EXCEPT ![p] = "committed"]
    /\ loc' = [loc EXCEPT ![p] = AfterBlock(@)]
    /\ UNCHANGED << so_items, invoices, invoice_items, current_year, req >>

----------------------------------------------------------------------------
(* The program *)

\* the steps of session p, with the inputs each step draws: order_requests
\* for create_sales_order and the quantities of fulfillment items.  A new
\* request is taken while fewer than `capacity` documents exist.
Serve(p, order_requests, quantities, capacity) ==
    \/ /\ Documents < capacity
       /\ \E request \in order_requests : SoGenerateNumber(p, request)
    \/ SoFlush(p)
    \/ SoCommit(p)
    \/ /\ Documents < capacity
       /\ \E order_id \in KnownIds(sales_orders) : InvSelectOrder(p, order_id)
    \/ InvGenerateNumber(p)
    \/ \E no_items \in BOOLEAN : InvFlush(p, no_items)
    \/ \E item \in ItemInputs(quantities), last \in BOOLEAN : InvItem(p, item, last)
    \/ InvStatusLine(p)
    \/ InvUpdate(p)
    \/ InvCommit(p)
    \/ /\ Documents < capacity
       /\ \E order_id \in KnownIds(sales_orders), no_items \in BOOLEAN :
              ShSelectOrder(p, order_id, no_items)
    \/ \E item \in ItemInputs(quantities), last \in BOOLEAN : ShItem(p, item, last)
    \/ ShStatusLine(p)
    \/ ShUpdate(p)
    \/ ShCommit(p)
    \/ Respond(p)
    \/ Abort(p)
    \/ RequeryFails(p)

\* requests served one at a time, with every kind of input
Next ==
    Serve(1, CreateSalesOrderRequests(OrderQuantities, OrderStatusInputs),
          ItemQuantities, MaxDocuments)

Spec == Init /\ [][Next]_vars

\* requests served concurrently by all sessions; the clients send orders of
\* positive quantities with the default statuses, and items of the full
\* quantity of a line
ConcurrentOrderRequests ==
    CreateSalesOrderRequests({2}, {<< "not_invoiced", "not_shipped" >>})

NextConcurrent ==
    \E p \in Sessions : Serve(p, ConcurrentOrderRequests, {2}, MaxDocuments)

SpecConcurrent == Init /\ [][NextConcurrent]_vars

\* sales orders created one at a time in a year that already holds the orders
\* numbered 1..StoredBefore (orders without lines, each created by an earlier
\* create_sales_order)
StoredOrders(n) ==
    {[id |-> i, order_number |-> DocNumber(FirstYear, i),
      invoice_status |-> "not_invoiced", shipment_status |-> "not_shipped",
      tx |-> 0] : i \in 1..n}

InitNumbering ==
    /\ sales_orders = StoredOrders(StoredBefore)
    /\ so_items = {}
    /\ invoices = {}
    /\ invoice_items = {}
    /\ shipments = {}
    /\ shipment_items = {}
    /\ current_year = FirstYear
    /\ pc = [p \in Sessions |-> "idle"]
    /\ req = [p \in Sessions |-> NoRequest]
    /\ loc = [p \in Sessions |-> NoLocals]

NextNumbering ==
    \/ /\ Documents < StoredBefore + MaxDocuments
       /\ \E request \in ConcurrentOrderRequests : SoGenerateNumber(1, request)
    \/ SoFlush(1)
    \/ SoCommit(1)
    \/ Respond(1)
    \/ Abort(1)

SpecNumbering == InitNumbering /\ [][NextNumbering]_vars

\* the same, with the scheduling of the server: a handler whose awaited
\* statement can complete goes on, and a handler that has ended answers
SpecNumberingFair ==
    /\ SpecNumbering
    /\ WF_vars(SoFlush(1))
    /\ WF_vars(SoCommit(1))
    /\ WF_vars(Respond(1))

\* The rendering and the parsing of generate_order_number on their own: each
\* call renders new_num, and the next call parses the number the call before
\* it rendered (the last number of the table when the calls follow each other
\* and the table is read in numeric order).
InitFormat ==
    /\ sales_orders = {}
    /\ so_items = {}
    /\ invoices = {}
    /\ invoice_items = {}
    /\ shipments = {}
    /\ shipment_items = {}
    /\ current_year = FirstYear
    /\ pc = [p \in Sessions |-> IF p = 1 THEN "render" ELSE "idle"]
    /\ req = [p \in Sessions |-> NoRequest]
    /\ loc = [p \in Sessions |->
                 IF p = 1 THEN [NoLocals EXCEPT !.new_num = 1] ELSE NoLocals]

\* return f"SO-{current_year}-{new_num:03d}"
Render(p) ==
    /\ pc[p] = "render"
    /\ loc' = [loc EXCEPT ![p].number = DocNumber(current_year, loc[p].new_num)]
    /\ pc' = [pc EXCEPT ![p] = "parse"]
    /\ UNCHANGED << tables, current_year, req >>

\* last_num = int(last_order.split("-")[-1]); new_num = last_num + 1
ParseLast(p) ==
    /\ pc[p] = "parse"
    /\ loc[p].new_num < MaxSequence
    /\ loc' = [loc EXCEPT ![p].new_num = ParseInt(loc[p].number.suffix) + 1]
    /\ pc' = [pc EXCEPT ![p] = "render"]
    /\ UNCHANGED << tables, current_year, req >>

NextFormat == Render(1) \/ ParseLast(1)

SpecFormat == InitFormat /\ [][NextFormat]_vars

\* one order with lines of several prices and tax rates is created, and the
\* orders are listed
PricedOrderRequests ==
    OrderRequestsOf(SoItemInputs({1, 2}, {10, 20, 500, 1000}, {0, 1000}),
                    {<< "not_invoiced", "not_shipped" >>})

NextTotals ==
    \/ /\ Documents < 1
       /\ \E request \in PricedOrderRequests : SoGenerateNumber(1, request)
    \/ SoFlush(1)
    \/ SoCommit(1)
    \/ ListSalesOrders(1)
    \/ Respond(1)

SpecTotals == Init /\ [][NextTotals]_vars

\* datetime.now().year once a new year has begun
NewYear ==
    /\ current_year < FirstYear + YearsAhead
    /\ current_year' = current_year + 1
    /\ UNCHANGED << tables, pc, req, loc >>

\* orders without lines and invoices without items, created one at a time
\* while the years go by
NextYears ==
    \/ /\ Documents < MaxDocuments + 1
       /\ \E request \in OrderRequestsOf({}, {<< "not_invoiced", "not_shipped" >>}) :
              SoGenerateNumber(1, request)
    \/ SoFlush(1)
    \/ SoCommit(1)
    \/ /\ Documents < MaxDocuments + 1
       /\ \E order_id \in KnownIds(sales_orders) : InvSelectOrder(1, order_id)
    \/ InvGenerateNumber(1)
    \/ InvFlush(1, TRUE)
    \/ InvUpdate(1)
    \/ InvCommit(1)
    \/ Respond(1)
    \/ NewYear

SpecYears == Init /\ [][NextYears]_vars

\* two committed orders, each with one line of quantity 2, and two clients:
\* client p sends one create_invoice and one create_shipment for order p, with
\* items that fit the line, and no storage fault occurs.  Every request of
\* this specification succeeds when it is served alone.
TwoOrders ==
    {[id |-> i, order_number |-> DocNumber(FirstYear, i),
      invoice_status |-> "not_invoiced", shipment_status |-> "not_shipped",
      tx |-> 0] : i \in Sessions}

TwoOrderLines ==
    {[id |-> i, sales_order_id |-> i, quantity |-> 2, price |-> 1000,
      tax_rate |-> 1000, tx |-> 0] : i \in Sessions}

InitTwoOrders ==
    /\ sales_orders = TwoOrders
    /\ so_items = TwoOrderLines
    /\ invoices = {}
    /\ invoice_items = {}
    /\ shipments = {}
    /\ shipment_items = {}
    /\ current_year = FirstYear
    /\ pc = [p \in Sessions |-> "idle"]
    /\ req = [p \in Sessions |-> NoRequest]
    /\ loc = [p \in Sessions |-> NoLocals]

\* the items of client p: its own line, 1 or 2 units
OwnItems(p) == {[soItemId |-> p, quantity |-> q] : q \in {1, 2}}

ServeOwnOrder(p) ==
    \/ /\ \A r \in invoices : r.sales_order_id # p
       /\ InvSelectOrder(p, p)
    \/ InvGenerateNumber(p)
    \/ InvFlush(p, FALSE)
    \/ \E item \in OwnItems(p) : InvItem(p, item, TRUE)
    \/ InvStatusLine(p)
    \/ InvUpdate(p)
    \/ InvCommit(p)
    \/ /\ \A r \in shipments : r.sales_order_id # p
       /\ ShSelectOrder(p, p, FALSE)
    \/ \E item \in OwnItems(p) : ShItem(p, item, TRUE)
    \/ ShStatusLine(p)
    \/ ShUpdate(p)
    \/ ShCommit(p)
    \/ Respond(p)

NextTwoOrders == \E p \in Sessions : ServeOwnOrder(p)

SpecTwoOrders == InitTwoOrders /\ [][NextTwoOrders]_vars

\* requests served one at a time, with the two reads of the shipped
\* quantities among them
NextViews ==
    \/ Serve(1, ConcurrentOrderRequests, {1, 2}, MaxDocuments)
    \/ ListSalesOrders(1)
    \/ \E order_id \in KnownIds(sales_orders) : GetShippedQuantities(1, order_id)

SpecViews == Init /\ [][NextViews]_vars

\* two stored orders, and the sessions serving concurrently the requests of
\* clients that create orders without lines and invoice or ship the whole
\* line of the first order
ContendedOrderRequests ==
    OrderRequestsOf({}, {<< "not_invoiced", "not_shipped" >>})

WholeLine == [soItemId |-> 1, quantity |-> 2]

ServeContended(p) ==
    \/ /\ Documents < MaxDocuments + 1
       /\ \E request \in ContendedOrderRequests : SoGenerateNumber(p, request)
    \/ SoFlush(p)
    \/ SoCommit(p)
    \/ /\ Documents < MaxDocuments + 1
       /\ InvSelectOrder(p, 1)
    \/ InvGenerateNumber(p)
    \/ InvFlush(p, FALSE)
    \/ InvItem(p, WholeLine, TRUE)
    \/ InvStatusLine(p)
    \/ InvUpdate(p)
    \/ InvCommit(p)
    \/ /\ Documents < MaxDocuments + 1
       /\ ShSelectOrder(p, 1, FALSE)
    \/ ShItem(p, WholeLine, TRUE)
    \/ ShStatusLine(p)
    \/ ShUpdate(p)
    \/ ShCommit(p)
    \/ Respond(p)
    \/ Abort(p)

NextContended == \E p \in Sessions : ServeContended(p)

SpecContended == InitTwoOrders /\ [][NextContended]_vars

\* the scheduling of the statements a handler awaits inside its transaction
\* block: the event loop resumes a handler whose statement can run, and the
\* store grants a lock or a unique key to a transaction that waits for it
\* before a transaction that asks for it later
Proceeds(p) ==
    /\ WF_vars(SoCommit(p))
    /\ WF_vars(InvGenerateNumber(p))
    /\ WF_vars(InvItem(p, WholeLine, TRUE))
    /\ WF_vars(InvStatusLine(p))
    /\ WF_vars(InvCommit(p))
    /\ WF_vars(ShItem(p, WholeLine, TRUE))
    /\ WF_vars(ShStatusLine(p))
    /\ WF_vars(ShCommit(p))
    /\ SF_vars(SoFlush(p))
    /\ SF_vars(InvFlush(p, FALSE))
    /\ SF_vars(InvUpdate(p))
    /\ SF_vars(ShUpdate(p))

SpecContendedFair == SpecContended /\ \A p \in Sessions : Proceeds(p)

----------------------------------------------------------------------------
(* What the committed rows say *)

\* the quantity of a line consumed by committed invoice / shipment items
ConsumedInvoice(line) ==
    SumOf({r \in Committed(invoice_items) : r.so_item_id = line},
          "quantity_invoiced")

ConsumedShipment(line) ==
    SumOf({r \in Committed(shipment_items) : r.so_item_id = line},
          "quantity_shipped")

CapacityHolds ==
    \A l \in Committed(so_items) :
        /\ ConsumedInvoice(l.id) <= l.quantity
        /\ ConsumedShipment(l.id) <= l.quantity

IsFulfillment(p) == req[p].kind \in {"create_invoice", "create_shipment"}

\* the status section 4.3 of the specification derives for an order from the
\* consumed totals of its lines
DerivedStatus(consumed(_), order_id, none, partial, complete) ==
    LET lines == {l \in Committed(so_items) : l.sales_order_id = order_id}
    IN  IF \A l \in lines : consumed(l.id) = l.quantity THEN complete
        ELSE IF \E l \in lines : consumed(l.id) > 0 THEN partial
        ELSE none

----------------------------------------------------------------------------
(* C1: served one at a time, create_invoice and create_shipment never leave a
   line with more committed quantity than its ordered quantity, on either
   track. *)
C1_CapacitySequential ==
    \A p \in Sessions :
        (pc[p] = "committed" /\ IsFulfillment(p)) => CapacityHolds

\* what is left of C1 once the lines of negative ordered quantity, which
\* create_sales_order accepts, are set aside
C1_HoldsForNonNegativeLines ==
    \A l \in Committed(so_items) :
        l.quantity >= 0 =>
            /\ ConsumedInvoice(l.id) <= l.quantity
            /\ ConsumedShipment(l.id) <= l.quantity

(* C2: when create_invoice (or create_shipment) transactions on the same line
   interleave, the committed quantity of the line still never exceeds its
   ordered quantity. *)
C2_CapacityConcurrent == CapacityHolds

(* C3: two sessions that are creating a document of the same kind in the same
   year never hold the same generated number. *)
HoldsNumber(p, kind) ==
    /\ req[p].kind = kind
    /\ InTransaction(p)
    /\ loc[p].number # NoNumber

C3_DistinctNumbersIssued ==
    \A p, q \in Sessions :
        \A kind \in {"create_sales_order", "create_invoice"} :
            (p # q /\ HoldsNumber(p, kind) /\ HoldsNumber(q, kind))
                => loc[p].number # loc[q].number

(* C4: in every committed state, also after concurrent creations and after an
   abort in the middle of a creation, no two sales orders share an
   order_number and no two invoices share an invoice_number. *)
C4_CommittedNumbersUnique ==
    /\ \A a, b \in Committed(sales_orders) :
           a.order_number = b.order_number => a.id = b.id
    /\ \A a, b \in Committed(invoices) :
           a.invoice_number = b.invoice_number => a.id = b.id

\* two creations collided on a number: one is committed, the other was refused
C4_Witness ==
    \E p \in Sessions :
        /\ pc[p] = "failed"
        /\ loc[p].err = "IntegrityError"
        /\ req[p].kind = "create_invoice"
        /\ Committed(invoices) # {}

(* C5: when every session is creating a sales order of the same year and the
   table held no order before them, the sequence values they obtain are
   exactly 1..N. *)
C5_ConcurrentCreationsCoverRange ==
    LET creators == {p \in Sessions :
                        /\ req[p].kind = "create_sales_order"
                        /\ pc[p] \in {"so_flush", "so_commit", "committed"}}
        theirs(r) == \E p \in creators : loc[p].doc = r.id
    IN  (creators = Sessions /\ \A r \in sales_orders : theirs(r))
            => {ParseInt(loc[p].number.suffix) : p \in Sessions} = 1..NumSessions

(* C6: whatever orders of the year are stored, also orders with numbers of
   four digits, the number generated for the next sales order is the numeric
   maximum of the stored sequence values plus one. *)
MaxOf(S) == IF S = {} THEN 0 ELSE CHOOSE x \in S : \A y \in S : y <= x

C6_NextIsNumericMaxPlusOne ==
    \A p \in Sessions :
        pc[p] = "so_flush" =>
            ParseInt(loc[p].number.suffix) =
                MaxOf({ParseInt(r.order_number.suffix) :
                          r \in {x \in Visible(sales_orders, p) :
                                    x.order_number.year = current_year}}) + 1

(* C7: after a create_invoice (create_shipment) that commits with no
   concurrent transaction, the invoice_status (shipment_status) of an order
   that has lines is complete when every line's consumed total equals its
   ordered quantity, else partial when some line's total is above 0, else
   none. *)
C7_StatusAfterCommit ==
    \A p \in Sessions :
        (pc[p] = "committed" /\ LinesOf(req[p].salesOrderId) # << >>) =>
            /\ req[p].kind = "create_invoice" =>
                   OrderRow(req[p].salesOrderId).invoice_status =
                       DerivedStatus(ConsumedInvoice, req[p].salesOrderId,
                                     "not_invoiced", "partial", "invoiced")
            /\ req[p].kind = "create_shipment" =>
                   OrderRow(req[p].salesOrderId).shipment_status =
                       DerivedStatus(ConsumedShipment, req[p].salesOrderId,
                                     "not_shipped", "partial", "shipped")

\* what is left of C7 once the orders with a line of negative ordered
\* quantity are set aside
C7_HoldsForNonNegativeLines ==
    (\E l \in Committed(so_items) : l.quantity < 0) \/ C7_StatusAfterCommit

(* C8: for an order with no lines, the status create_invoice or
   create_shipment writes is none, never complete. *)
C8_NoLinesMeansNone ==
    \A p \in Sessions :
        (pc[p] = "committed" /\ IsFulfillment(p)
           /\ LinesOf(req[p].salesOrderId) = << >>) =>
            /\ req[p].kind = "create_invoice" =>
                   OrderRow(req[p].salesOrderId).invoice_status = "not_invoiced"
            /\ req[p].kind = "create_shipment" =>
                   OrderRow(req[p].salesOrderId).shipment_status = "not_shipped"

(* C9: under every interleaving of create_invoice (create_shipment)
   transactions, the committed status of every order that has lines equals
   the status derived from the committed events of the track.  The formula
   asks this only of the states in which no line is over-allocated, so that
   what refutes it is a stale status and not the over-allocation of C2. *)
C9_StatusNeverStale ==
    \A o \in Committed(sales_orders) :
        (CapacityHolds /\ LinesOf(o.id) # << >>) =>
            /\ o.invoice_status =
                   DerivedStatus(ConsumedInvoice, o.id,
                                 "not_invoiced", "partial", "invoiced")
            /\ o.shipment_status =
                   DerivedStatus(ConsumedShipment, o.id,
                                 "not_shipped", "partial", "shipped")

(* C10: a create_invoice or create_shipment request with an item that would
   push the consumed total of its line above the ordered quantity is rejected,
   and the rejection leaves the store as it was: the committed rows are those
   from before the request and no row of the request remains. *)
CommittedRows ==
    << Committed(sales_orders), Committed(so_items), Committed(invoices),
       Committed(invoice_items), Committed(shipments), Committed(shipment_items) >>

RowsOf(p) ==
    {r \in sales_orders \cup so_items \cup invoices \cup invoice_items
             \cup shipments \cup shipment_items : r.tx = p}

\* the item the loop of session p reads in this step pushes its line above
\* the ordered quantity
PushesAbove(p, item) ==
    /\ \E l \in Committed(so_items) :
           /\ l.id = item.soItemId
           /\ l.sales_order_id = req[p].salesOrderId
           /\ (IF pc[p] = "inv_items" THEN InvoicedQty(p, l.id)
                                      ELSE ShippedQty(p, l.id))
                + item.quantity > l.quantity

C10_RejectionLeavesStoreUnchanged ==
    [][\A p \in Sessions :
          /\ (pc[p] \in {"inv_items", "sh_items"}
                /\ Len(req'[p].items) = Len(req[p].items) + 1
                /\ PushesAbove(p, req'[p].items[Len(req'[p].items)]))
               => /\ pc'[p] = "failed"
                  /\ loc'[p].err = "CapacityExceeded"
                  /\ RowsOf(p)' = {}
          /\ (IsFulfillment(p) /\ pc'[p] # "committed")
               => CommittedRows' = CommittedRows]_vars

\* a request was rejected for capacity at its second item, after its first
\* item had passed validation
C10_Witness ==
    \E p \in Sessions :
        /\ pc[p] = "failed"
        /\ loc[p].err = "CapacityExceeded"
        /\ Len(req[p].items) = 2
        /\ RowsOf(p) = {}

(* C11: when a create_invoice or create_shipment transaction is aborted by a
   storage fault or a crash at any point before its commit, also after its
   items have passed the capacity check, the committed rows (documents, items
   and the statuses of the orders) are those from before the abort, and no row
   of the transaction remains. *)
C11_AbortPersistsNothing ==
    [][\A p \in Sessions :
          (IsFulfillment(p) /\ InTransaction(p) /\ pc'[p] = "failed"
             /\ loc'[p].err = "StorageUnavailable")
            => /\ CommittedRows' = CommittedRows
               /\ RowsOf(p)' = {}]_vars

\* a create_invoice was aborted after an item of it had passed the capacity
\* check and had been inserted: neither the invoice nor the item is stored
C11_Witness ==
    \E p \in Sessions :
        /\ pc[p] = "failed"
        /\ loc[p].err = "StorageUnavailable"
        /\ req[p].kind = "create_invoice"
        /\ Len(req[p].items) >= 1
        /\ loc[p].doc # 0
        /\ \A r \in invoices : r.id # loc[p].doc
        /\ \A r \in invoice_items : r.invoice_id # loc[p].doc

(* C12: when create_sales_order or create_invoice answers with an error, the
   document the call had created is not stored, whether the failure happened
   inside the transaction block or in the steps after it. *)
C12_ErrorMeansNothingPersisted ==
    \A p \in Sessions :
        (pc[p] = "failed" /\ loc[p].doc # 0) =>
            /\ req[p].kind = "create_sales_order" =>
                   \A r \in Committed(sales_orders) : r.id # loc[p].doc
            /\ req[p].kind = "create_invoice" =>
                   \A r \in Committed(invoices) : r.id # loc[p].doc

(* C13: no invoice item and no shipment item with a quantity of 0 or less is
   ever committed: a request that carries one is rejected. *)
C13_NoNonPositiveEvent ==
    /\ \A r \in Committed(invoice_items) : r.quantity_invoiced > 0
    /\ \A r \in Committed(shipment_items) : r.quantity_shipped > 0

(* C14: a create_invoice or create_shipment request that names a sales order
   that does not exist is answered with the status of NotFound (404), which is
   not the status of the answer to an exceeded capacity or an invalid line. *)
C14_NotFoundReachesCaller ==
    \A p \in Sessions :
        (pc[p] = "failed" /\ IsFulfillment(p)) =>
            /\ loc[p].err = "NotFound" => loc[p].response.status_code = 404
            /\ loc[p].err \in {"CapacityExceeded", "InvalidItem"}
                   => loc[p].response.status_code # 404

(* C15: a creation that failed because its number collided with the number of
   a stored document is safe to retry: when the client keeps sending the
   request again, with no other creation in flight, a creation eventually
   commits (or the storage fails, which is no collision), at every height of
   the sequence. *)
C15_RetryEventuallySucceeds ==
    ([]<>(\E p \in Sessions : pc[p] = "so_flush"))
        => ((\E p \in Sessions : pc[p] = "failed" /\ loc[p].err = "IntegrityError")
               ~> (\E p \in Sessions :
                      \/ pc[p] = "committed"
                      \/ pc[p] = "failed" /\ loc[p].err = "StorageUnavailable"))

(* C16: two clients that work on two different orders, with requests that
   each succeed when served alone, never make each other fail: under every
   interleaving no request of either is answered with an error. *)
C16_DifferentOrdersBothSucceed ==
    \A p \in Sessions : pc[p] # "failed"

\* the part of C16 that is about create_shipment
C16_HoldsForShipments ==
    \A p \in Sessions : pc[p] = "failed" => req[p].kind # "create_shipment"

(* C17: the number issued for a sales order is one more than the highest
   sequence value among the sales orders of the current year, and 1 when the
   year has none, whatever invoices and whatever orders of earlier years are
   stored; likewise the number issued for an invoice depends on the invoices of
   the current year alone.  A step that stores or changes an invoice leaves the
   order numbers as they are, and a step that stores an order leaves the
   invoice numbers as they are. *)
SequenceOf(numbers, year) ==
    {ParseInt(n.suffix) : n \in {m \in numbers : m.year = year}}

C17_ScopedPerKindAndYear ==
    [][\A p \in Sessions :
          /\ (pc[p] = "idle" /\ pc'[p] = "so_flush") =>
                 loc'[p].number =
                     [year |-> current_year,
                      suffix |-> Format03d(1 + MaxOf(SequenceOf(
                          {r.order_number : r \in Visible(sales_orders, p)},
                          current_year)))]
          /\ (pc[p] = "inv_number" /\ pc'[p] = "inv_flush") =>
                 loc'[p].number =
                     [year |-> current_year,
                      suffix |-> Format03d(1 + MaxOf(SequenceOf(
                          {r.invoice_number : r \in Visible(invoices, p)},
                          current_year)))]
          /\ invoices' # invoices =>
                 {<< r.id, r.order_number >> : r \in sales_orders}'
                     = {<< r.id, r.order_number >> : r \in sales_orders}
          /\ sales_orders' # sales_orders =>
                 {<< r.id, r.invoice_number >> : r \in invoices}'
                     = {<< r.id, r.invoice_number >> : r \in invoices}]_vars

\* an order and an invoice of the first year are stored, a new year has begun,
\* and the first order of the new year is given the number 1
C17_Witness ==
    \E p \in Sessions :
        /\ pc[p] = "so_flush"
        /\ current_year = FirstYear + 1
        /\ loc[p].number = [year |-> FirstYear + 1, suffix |-> << 0, 0, 1 >>]
        /\ \E r \in Committed(sales_orders) : r.order_number.year = FirstYear
        /\ \E r \in Committed(invoices) : r.invoice_number.year = FirstYear

(* C18: the suffix rendered for a sequence value is the value in decimal,
   padded with zeros on the left to 3 digits and never cut: it has at least 3
   characters, a leading zero only when it has exactly 3, the values 1, 42, 999
   and 1000 give 001, 042, 999 and 1000, and parsing the rendered suffix gives
   the value back (the next value computed from it is the value plus one). *)
C18_RenderAndRoundTrip ==
    [][\A p \in Sessions :
          pc[p] = "parse" =>
              LET n == loc[p].new_num
                  suffix == loc[p].number.suffix
              IN  /\ loc[p].number.year = current_year
                  /\ Len(suffix) >= 3
                  /\ \A i \in 1..Len(suffix) : suffix[i] \in 0..9
                  /\ suffix[1] = 0 => Len(suffix) = 3
                  /\ n = 1 => suffix = << 0, 0, 1 >>
                  /\ n = 42 => suffix = << 0, 4, 2 >>
                  /\ n = 999 => suffix = << 9, 9, 9 >>
                  /\ n = 1000 => suffix = << 1, 0, 0, 0 >>
                  /\ loc'[p].new_num = n + 1]_vars

\* the value 1000 has been rendered, with four digits
C18_Witness ==
    \E p \in Sessions :
        /\ pc[p] = "parse"
        /\ loc[p].new_num = 1000
        /\ loc[p].number.suffix = << 1, 0, 0, 0 >>

(* C19: the totals list_sales_orders reports for an order are the sums of the
   specification: subtotal = sum of quantity * price, tax = sum of
   quantity * price * tax_rate, total = subtotal + tax, each reported as the
   number that stands for that decimal amount. *)
ExactSubtotal(order_id) ==
    SumOf({[id |-> l.id, cents |-> l.quantity * l.price] :
              l \in {r \in Committed(so_items) : r.sales_order_id = order_id}},
          "cents")

ExactTax(order_id) ==
    SumOf({[id |-> l.id, millionths |-> l.quantity * l.price * l.tax_rate] :
              l \in {r \in Committed(so_items) : r.sales_order_id = order_id}},
          "millionths")

C19_TotalsAreTheSums ==
    \A p \in Sessions :
        pc[p] = "listed" =>
            \A o \in DOMAIN loc[p].response.totals :
                loc[p].response.totals[o] =
                    [subtotal |-> ToFloat(ExactSubtotal(o), 100),
                     tax |-> ToFloat(ExactTax(o), 1000000),
                     total |-> ToFloat(ExactSubtotal(o) * 10000 + ExactTax(o),
                                       1000000)]

\* the example of C19: lines (2, 10.00, 0.10) and (1, 5.00, 0.0) give
\* subtotal 25.00, tax 2.00 and total 27.00
C19_HoldsForExample ==
    \A p \in Sessions :
        pc[p] = "listed" =>
            \A o \in DOMAIN loc[p].response.totals :
                (\E a, b \in Committed(so_items) :
                    /\ a.id < b.id
                    /\ a.sales_order_id = o /\ b.sales_order_id = o
                    /\ << a.quantity, a.price, a.tax_rate >> = << 2, 1000, 1000 >>
                    /\ << b.quantity, b.price, b.tax_rate >> = << 1, 500, 0 >>)
                  => loc[p].response.totals[o] =
                         [subtotal |-> ToFloat(25, 1), tax |-> ToFloat(2, 1),
                          total |-> ToFloat(27, 1)]

\* a step of list_sales_orders changes no stored row
C19_ListingChangesNothing ==
    [][\A p \in Sessions :
          req'[p].kind = "list_sales_orders" => tables' = tables]_vars

(* C20: a step of create_invoice changes no shipment, no shipment item and no
   shipment_status; a step of create_shipment changes no invoice, no invoice
   item and no invoice_status, so the next invoice number stays the same; and
   an item of create_invoice (create_shipment) is accepted exactly when its
   line belongs to the order and the quantity invoiced (shipped) so far plus
   the item's quantity is within the ordered quantity, whatever was consumed
   on the other track. *)
Acts(p) == pc'[p] # pc[p] \/ loc'[p] # loc[p] \/ req'[p] # req[p]

ShipmentTrack ==
    << shipments, shipment_items,
       {<< r.id, r.shipment_status >> : r \in sales_orders} >>

InvoiceTrack ==
    << invoices, invoice_items,
       {<< r.id, r.invoice_status >> : r \in sales_orders} >>

\* the item fits its line on the track of `events`, a table whose rows hold
\* their quantity in `field`
FitsOwnTrack(p, item, events, field) ==
    \E l \in Visible(so_items, p) :
        /\ l.id = item.soItemId
        /\ l.sales_order_id = req[p].salesOrderId
        /\ SumOf({r \in Visible(events, p) : r.so_item_id = l.id}, field)
             + item.quantity <= l.quantity

C20_TracksIndependent ==
    [][\A p \in Sessions :
          /\ (Acts(p) /\ "create_invoice" \in {req[p].kind, req'[p].kind})
                => ShipmentTrack' = ShipmentTrack
          /\ (Acts(p) /\ "create_shipment" \in {req[p].kind, req'[p].kind})
                => InvoiceTrack' = InvoiceTrack
          /\ (pc[p] = "inv_items" /\ Len(req'[p].items) = Len(req[p].items) + 1) =>
                 (pc'[p] # "failed" <=>
                     FitsOwnTrack(p, req'[p].items[Len(req'[p].items)],
                                  invoice_items, "quantity_invoiced"))
          /\ (pc[p] = "sh_items" /\ Len(req'[p].items) = Len(req[p].items) + 1) =>
                 (pc'[p] # "failed" <=>
                     FitsOwnTrack(p, req'[p].items[Len(req'[p].items)],
                                  shipment_items, "quantity_shipped"))]_vars

\* a line whose whole quantity is shipped has been invoiced in full as well
C20_Witness ==
    \E p \in Sessions :
        /\ pc[p] = "committed"
        /\ req[p].kind = "create_invoice"
        /\ \E l \in Committed(so_items) :
               /\ l.sales_order_id = req[p].salesOrderId
               /\ l.quantity > 0
               /\ ConsumedShipment(l.id) = l.quantity
               /\ ConsumedInvoice(l.id) = l.quantity

(* C21: the invoice items and the shipment items are append-only: a committed
   invoice item or shipment item is present, with the same document, the same
   line and the same quantity, after every step of every handler. *)
C21_EventsAppendOnly ==
    [][/\ Committed(invoice_items) \subseteq Committed(invoice_items)'
       /\ Committed(shipment_items) \subseteq Committed(shipment_items)']_vars

\* an invoice item and a shipment item are both committed: the earlier of
\* the two has lived through the whole request of the later one
C21_Witness ==
    /\ Committed(invoice_items) # {}
    /\ Committed(shipment_items) # {}
    /\ \E p \in Sessions : pc[p] = "failed"

(* C22: every order line create_sales_order has committed has a quantity
   greater than zero; a request line of quantity zero or below leaves no
   committed line. *)
C22_OrderLinesPositive ==
    \A l \in Committed(so_items) : l.quantity > 0

(* C23: the answer to an item rejected for exceeding the remaining quantity
   of its line carries the id of the line and the quantity that could still
   be invoiced (shipped) on it: the ordered quantity less what the earlier
   items consumed. *)
RejectedItem(p) == req[p].items[Len(req[p].items)]

Remaining(p) ==
    LET line == RejectedItem(p).soItemId
    IN  LineRow(line).quantity -
          (IF req[p].kind = "create_invoice" THEN ConsumedInvoice(line)
           ELSE ConsumedShipment(line))

C23_ErrorCarriesLineAndRemaining ==
    \A p \in Sessions :
        (pc[p] = "failed" /\ loc[p].err = "CapacityExceeded") =>
            LET detail == loc[p].response.detail
            IN  /\ "soItemId" \in DOMAIN detail
                /\ detail.soItemId = RejectedItem(p).soItemId
                /\ "remaining" \in DOMAIN detail
                /\ detail.remaining = Remaining(p)

\* the answer does carry the id of the line
C23_ErrorCarriesLine ==
    \A p \in Sessions :
        (pc[p] = "failed" /\ loc[p].err = "CapacityExceeded") =>
            /\ DOMAIN loc[p].response.detail = {"soItemId"}
            /\ loc[p].response.detail.soItemId = RejectedItem(p).soItemId

(* C24: every committed invoice item (shipment item) names a line of the
   sales order its invoice (shipment) was created for; a request item that
   names no line, or a line of another order, is rejected and its request
   writes nothing. *)
ItemsOnOwnOrder(items, documents, doc_field) ==
    \A i \in Committed(items) :
        \E d \in Committed(documents), l \in Committed(so_items) :
            /\ d.id = i[doc_field]
            /\ l.id = i.so_item_id
            /\ l.sales_order_id = d.sales_order_id

\* the line the item names is no line of the order of the request
ForeignLine(p, item) ==
    \A l \in Committed(so_items) :
        l.id = item.soItemId => l.sales_order_id # req[p].salesOrderId

C24_ItemsNameLinesOfTheirOrder ==
    [][/\ ItemsOnOwnOrder(invoice_items, invoices, "invoice_id")'
       /\ ItemsOnOwnOrder(shipment_items, shipments, "shipment_id")'
       /\ \A p \in Sessions :
             (pc[p] \in {"inv_items", "sh_items"}
                /\ Len(req'[p].items) = Len(req[p].items) + 1
                /\ ForeignLine(p, req'[p].items[Len(req'[p].items)]))
               => /\ pc'[p] = "failed"
                  /\ loc'[p].err = "InvalidItem"
                  /\ RowsOf(p)' = {}
                  /\ CommittedRows' = CommittedRows]_vars

\* a request was rejected at its second item, which named a line of another
\* order, after its first item had been accepted
C24_Witness ==
    \E p \in Sessions :
        /\ pc[p] = "failed"
        /\ loc[p].err = "InvalidItem"
        /\ Len(req[p].items) = 2
        /\ \E l \in Committed(so_items) :
               /\ l.id = req[p].items[2].soItemId
               /\ l.sales_order_id # req[p].salesOrderId
        /\ RowsOf(p) = {}

(* C25: an order with at least one line and no committed invoice item
   (shipment item) on its lines has the stored invoice status not_invoiced
   (shipment status not_shipped); in particular an order create_sales_order
   has just committed has both, whatever statuses its request carried. *)
NoEventOn(order_id, consumed_rows) ==
    \A l \in Committed(so_items) :
        l.sales_order_id = order_id =>
            \A r \in Committed(consumed_rows) : r.so_item_id # l.id

C25_NoEventMeansNone ==
    \A o \in Committed(sales_orders) :
        (\E l \in Committed(so_items) : l.sales_order_id = o.id) =>
            /\ NoEventOn(o.id, invoice_items) => o.invoice_status = "not_invoiced"
            /\ NoEventOn(o.id, shipment_items) => o.shipment_status = "not_shipped"

(* C26: the capacity check of an item counts the items the same request has
   already added for the same line: an item is rejected with CapacityExceeded
   when the committed quantity of its line, plus the quantities of the
   earlier items of the request for that line, plus its own quantity exceeds
   the ordered quantity; so a request naming a line twice with q1 and q2 is
   rejected when consumed + q1 + q2 exceeds the ordered quantity. *)
EarlierOfRequest(p, line) ==
    SumOf({[i |-> i, quantity |-> req[p].items[i].quantity] :
              i \in {j \in 1..Len(req[p].items) :
                        req[p].items[j].soItemId = line}},
          "quantity")

C26_CountsEarlierItemsOfRequest ==
    [][\A p \in Sessions :
          (pc[p] \in {"inv_items", "sh_items"}
             /\ Len(req'[p].items) = Len(req[p].items) + 1) =>
            LET item == req'[p].items[Len(req'[p].items)]
                consumed == IF pc[p] = "inv_items"
                            THEN ConsumedInvoice(item.soItemId)
                            ELSE ConsumedShipment(item.soItemId)
            IN  \A l \in Committed(so_items) :
                    (/\ l.id = item.soItemId
                     /\ l.sales_order_id = req[p].salesOrderId
                     /\ consumed + EarlierOfRequest(p, l.id) + item.quantity
                          > l.quantity)
                      => /\ pc'[p] = "failed"
                         /\ loc'[p].err = "CapacityExceeded"]_vars

\* a request named one line twice: each quantity alone fits what is left of
\* the line, the two together do not, and the second item was rejected
C26_Witness ==
    \E p \in Sessions :
        /\ pc[p] = "failed"
        /\ loc[p].err = "CapacityExceeded"
        /\ req[p].kind = "create_invoice"
        /\ Len(req[p].items) = 2
        /\ req[p].items[1].soItemId = req[p].items[2].soItemId
        /\ \E l \in Committed(so_items) :
               /\ l.id = req[p].items[2].soItemId
               /\ ConsumedInvoice(l.id) + req[p].items[1].quantity <= l.quantity
               /\ ConsumedInvoice(l.id) + req[p].items[2].quantity <= l.quantity

(* C27: the stored invoice status and shipment status of an order never go
   back: no step takes a status from complete to partial or none, or from
   partial to none. *)
StatusRank(status) ==
    IF status \in {"invoiced", "shipped"} THEN 2
    ELSE IF status = "partial" THEN 1
    ELSE 0

C27_StatusNeverRegresses ==
    [][\A o \in Committed(sales_orders) :
          \A n \in Committed(sales_orders)' :
              n.id = o.id =>
                  /\ StatusRank(n.invoice_status) >= StatusRank(o.invoice_status)
                  /\ StatusRank(n.shipment_status) >= StatusRank(o.shipment_status)]_vars

\* a status goes back only where the status had been stored from the request
\* (C25) or an event or a line of non-positive quantity is committed (C13,
\* C22)
C27_RegressionNeedsBadInput ==
    [][\A o \in Committed(sales_orders) :
          \A n \in Committed(sales_orders)' :
              (/\ n.id = o.id
               /\ \/ StatusRank(n.invoice_status) < StatusRank(o.invoice_status)
                  \/ StatusRank(n.shipment_status) < StatusRank(o.shipment_status))
                => \/ ~C25_NoEventMeansNone
                   \/ ~C22_OrderLinesPositive'
                   \/ \E r \in Committed(invoice_items)' : r.quantity_invoiced <= 0
                   \/ \E r \in Committed(shipment_items)' : r.quantity_shipped <= 0]_vars

(* C28: a create_invoice that fails does not use up a number.  The number a
   rejected or aborted create_invoice had obtained belongs to no committed
   invoice afterwards; every create_invoice obtains the number that follows
   those of the committed invoices of the year, so the next successful one
   receives the number of the failed one; and the committed invoice numbers
   of the year are 1..n without a gap. *)
InvoiceSequence ==
    SequenceOf({r.invoice_number : r \in Committed(invoices)}, current_year)

C28_FailureConsumesNoNumber ==
    [][/\ InvoiceSequence' = 1..Cardinality(Committed(invoices)')
       /\ \A p \in Sessions :
             /\ (req[p].kind = "create_invoice" /\ HoldsNumber(p, "create_invoice")
                   /\ pc'[p] = "failed")
                  => ParseInt(loc[p].number.suffix) \notin InvoiceSequence'
             /\ (pc[p] = "inv_number" /\ pc'[p] = "inv_flush")
                  => loc'[p].number =
                       DocNumber(current_year,
                                 Cardinality(Committed(invoices)) + 1)]_vars

\* a create_invoice was rejected at an item, after it had obtained a number
\* and inserted its invoice, while an earlier invoice is committed
C28_Witness ==
    \E p \in Sessions :
        /\ pc[p] = "failed"
        /\ req[p].kind = "create_invoice"
        /\ loc[p].err \in {"CapacityExceeded", "InvalidItem"}
        /\ Cardinality(Committed(invoices)) = 1
        /\ invoices = Committed(invoices)

(* C29: the shipped quantity list_sales_orders reports for a line, found by
   walking the shipments of the order and their items, and the one
   get_shipped_quantities reports for it are both the total of the line
   create_shipment uses in its capacity check: the sum of the committed
   shipment items of the line. *)
C29_ShippedViewsAgree ==
    \A p \in Sessions :
        (pc[p] = "listed"
           /\ req[p].kind \in {"list_sales_orders", "get_shipped_quantities"}) =>
            /\ req[p].kind = "list_sales_orders" =>
                   DOMAIN loc[p].response.shipped =
                       {l.id : l \in Committed(so_items)}
            /\ req[p].kind = "get_shipped_quantities" =>
                   DOMAIN loc[p].response.shipped =
                       {l.id : l \in {r \in Committed(so_items) :
                                         r.sales_order_id = req[p].salesOrderId}}
            /\ \A l \in DOMAIN loc[p].response.shipped :
                   /\ loc[p].response.shipped[l] = ConsumedShipment(l)
                   /\ loc[p].response.shipped[l] = ShippedQty(p, l)

\* the listing reports a line whose quantity was shipped by two shipments
C29_Witness ==
    \E p \in Sessions :
        /\ pc[p] = "listed"
        /\ req[p].kind = "list_sales_orders"
        /\ Cardinality(Committed(shipments)) = 2
        /\ \E l \in DOMAIN loc[p].response.shipped :
               /\ loc[p].response.shipped[l] = 2
               /\ Cardinality({r \in Committed(shipment_items) :
                                  r.so_item_id = l}) = 2

(* C30: with concurrent create_sales_order, create_invoice and create_shipment
   requests, a fair scheduler and a store that makes a writer wait for the
   lock or the unique key another transaction holds, every request that has
   entered its transaction block reaches its commit or its rollback: no
   request waits forever and no two requests wait for each other. *)
C30_EveryRequestFinishes ==
    \A p \in Sessions :
        InTransaction(p) ~> pc[p] \in {"committed", "failed"}

\* a request waits for the unique key or for the row lock another request
\* holds
C30_Witness ==
    \E p, q \in Sessions :
        \/ /\ pc[p] = "inv_flush"
           /\ UniqueWait(invoices, "invoice_number", p, loc[p].number)
           /\ pc[q] = "inv_update"
        \/ /\ pc[p] = "sh_update"
           /\ RowLocked(req[p].salesOrderId, p)
           /\ ShipmentStatusOf(loc[p].fully, loc[p].has_partial) # loc[p].loaded

====
